---- MODULE Spec2Model ----
(***************************************************************************)
(* powSrv client: the IPC frame decoder of PowClient.receive, the request  *)
(* / response correlation of PowClient.sendIpcFrameV1ToServer over the     *)
(* package-level response table, and the peer that answers the requests.   *)
(***************************************************************************)
EXTENDS Integers, Sequences, FiniteSets, TLC

(***************************************************************************)
(* Bounds of the model.                                                    *)
(***************************************************************************)
\* longest payload of the enumerated small frames
MaxPayload == 2
\* longest run of noise bytes put in front of a frame
MaxNoise == 2
\* calls started in the concurrent specification
MaxCalls == 3
\* read timeout of the client, in clock ticks (PowClient.ReadTimeOutMs)
ReadTimeOutMs == 1
\* calls started in the wrap-around specification beyond one full id cycle
WrapExtra == 1
\* calls that may run into their timeout in the wrap-around specification
MaxTimeouts == 1

(***************************************************************************)
(* Program constants.                                                      *)
(***************************************************************************)
ENQ == 5
FrameVersion == 1
BufSize == 3072
CrcPoly == 7

Byte == 0 .. 255
ToByte(n) == n % 256
MaxFrameLength == 256 * 256 - 1

IpcCmdNotification == 0
IpcCmdResponse == 1
IpcCmdError == 2
IpcCmdPowFunc == 6

Clients == {1, 2}
Callers == {1, 2}

Min(a, b) == IF a < b THEN a ELSE b

(***************************************************************************)
(* Bit operations on non-negative integers.                                *)
(***************************************************************************)
RECURSIVE Xor(_, _)
Xor(a, b) ==
    IF a = 0 THEN b
    ELSE IF b = 0 THEN a
    ELSE (((a % 2) + (b % 2)) % 2) + 2 * Xor(a \div 2, b \div 2)

RECURSIVE Or(_, _)
Or(a, b) ==
    IF a = 0 THEN b
    ELSE IF b = 0 THEN a
    ELSE (IF (a % 2) + (b % 2) > 0 THEN 1 ELSE 0) + 2 * Or(a \div 2, b \div 2)

(***************************************************************************)
(* crc8.Checksum(data, crc8Table): table driven CRC-8, most significant    *)
(* bit first, initial value 0, no final xor.                               *)
(***************************************************************************)
RECURSIVE crc8Shift(_, _)
crc8Shift(crc, n) ==
    IF n = 0 THEN crc
    ELSE crc8Shift(IF crc >= 128 THEN Xor(ToByte(crc * 2), CrcPoly)
                                 ELSE ToByte(crc * 2), n - 1)

crc8Table == [i \in Byte |-> crc8Shift(i, 8)]

\* the exclusive or of two bytes, tabulated
XorByte == [a \in Byte |-> [b \in Byte |-> Xor(a, b)]]

\* the checksum register after data[lo..hi], started from crc
RECURSIVE crc8Update(_, _, _, _)
crc8Update(crc, data, lo, hi) ==
    IF lo > hi THEN crc
    ELSE IF lo = hi THEN crc8Table[XorByte[crc][data[lo]]]
    ELSE LET mid == (lo + hi) \div 2
             left == crc8Update(crc, data, lo, mid)
         IN  IF left \in Byte THEN crc8Update(left, data, mid + 1, hi) ELSE left

Checksum(data) == crc8Update(0, data, 1, Len(data))

(***************************************************************************)
(* The frame codec outside receive.                                        *)
(***************************************************************************)
\* BytesToIpcFrameV1: request id, command, then the payload
BytesToIpcFrameV1(data) ==
    IF Len(data) < 2
    THEN [err |-> TRUE, ReqID |-> 0, Command |-> 0, Data |-> <<>>]
    ELSE [err |-> FALSE, ReqID |-> data[1], Command |-> data[2],
          Data |-> SubSeq(data, 3, Len(data))]

IpcFrameV1(id, cmd, data) ==
    [err |-> FALSE, ReqID |-> id, Command |-> cmd, Data |-> data]

\* the wire bytes of a frame: sync, version, 16 bit big-endian length of
\* requestId ++ command ++ payload, these bytes, checksum over them
FrameBytes(id, cmd, data) ==
    LET body == <<id, cmd>> \o data
    IN  <<ENQ, FrameVersion, ToByte(Len(body) \div 256), ToByte(Len(body))>>
            \o body \o <<Checksum(body)>>

(***************************************************************************)
(* State.                                                                  *)
(***************************************************************************)
VARIABLES
    Connection,   \* per client: "nil", "open" or "closed"
    rx,           \* per client: bytes the peer has written, not yet read
    tx,           \* per client: request messages written, not yet handled
    RequestId,    \* per client: PowClient.RequestId
    frameState,   \* per client: receive's frameState
    frameLength,  \* per client: receive's frameLength
    frameData,    \* per client: receive's frameData
    reader,       \* per client: "off", or "running" once receive is started
    readErr,      \* per client: Connection.Read has returned an error
    responses,    \* the package-level table: request id -> frame
    storeCount,   \* per client: frames its receive loop has stored
    cuts,         \* per client: where in a frame its reads have ended
    pc,           \* per caller: "idle", "send", "poll" or "done"
    cli,          \* per caller: the client the call is made on
    reqID,        \* per caller: sendIpcFrameV1ToServer's reqID
    elapsed,      \* per caller: ticks since ts, up to ReadTimeOutMs + 1
    ret,          \* per caller: what the last call returned
    callNo,       \* per caller: the number of its call on its client
    answered,     \* per caller: the peer has answered the request of its call
    nCalls,       \* per client: calls started
    nTimeouts,    \* calls that returned "Receive timeout"
    scenario,     \* what the peer was made to write (decoder runs)
    minWeightMagnitude, \* per caller: the argument of its PowFunc call
    responsesLock,      \* who holds the package-level lock, <<>> for nobody
    sconn,        \* server, per connection: "none", "open" or "closed"
    backlog,      \* server: connections made, not yet returned by Accept
    handling,     \* server: the connection main is handling, 0 in Accept
    pending,      \* server, per connection: device of its unanswered
                  \* PowFunc request, 0 when there is none
    PowMutex,     \* server, per device: the connection holding its mutex
    inPow,        \* server, per device: connections inside its PowFunc
    hpc,          \* server, per connection: position of its handler
    nRequests     \* server, per connection: requests written so far

serverVars ==
    <<sconn, backlog, handling, pending, PowMutex, inPow, hpc, nRequests>>

vars == <<Connection, rx, tx, RequestId, frameState, frameLength, frameData,
          reader, readErr, responses, storeCount, cuts, pc, cli, reqID,
          elapsed, ret, callNo, answered, nCalls, nTimeouts, scenario,
          minWeightMagnitude, responsesLock, serverVars>>

readerVars ==
    <<frameState, frameLength, frameData, responses, storeCount, cuts>>
callerVars ==
    <<pc, cli, reqID, elapsed, ret, callNo, answered, nCalls, nTimeouts>>

(***************************************************************************)
(* PowClient.receive: the work done on one buffer.  d holds frameState,    *)
(* frameLength, frameData, the response table and the count of stores.     *)
(***************************************************************************)
\* as SearchEnq, what was gathered of the frame before kept
SearchEnq_NoReset(d, b) ==
    IF b = ENQ
    THEN [d EXCEPT !.frameState = "SearchVersion"]
    ELSE d

SearchEnq(d, b) ==
    IF b = ENQ
    THEN [d EXCEPT !.frameLength = -1, !.frameData = <<>>,
                   !.frameState = "SearchVersion"]
    ELSE d

SearchVersion(d, b) ==
    IF b = FrameVersion
    THEN [d EXCEPT !.frameState = "SearchLength"]
    ELSE [d EXCEPT !.frameState = "SearchEnq"]

\* as SearchLength, the first length byte taken without the shift
SearchLength_NoShift(d, b) ==
    IF d.frameLength = -1
    THEN [d EXCEPT !.frameLength = b]
    ELSE [d EXCEPT !.frameLength = Or(d.frameLength, b),
                   !.frameState = "SearchData"]

SearchLength(d, b) ==
    IF d.frameLength = -1
    THEN [d EXCEPT !.frameLength = b * 256]
    ELSE [d EXCEPT !.frameLength = Or(d.frameLength, b),
                   !.frameState = "SearchData"]

\* as SearchData, the rest of a buffer replacing what was gathered before
SearchData_NoAppend(d, buf, idx) ==
    LET missingByteCount == d.frameLength - Len(d.frameData)
    IN  IF (Len(buf) - idx) >= missingByteCount
        THEN [d EXCEPT !.frameData =
                          @ \o SubSeq(buf, idx + 1, idx + missingByteCount),
                       !.frameState = "SearchCRC"]
        ELSE [d EXCEPT !.frameData = SubSeq(buf, idx + 1, Len(buf))]

SearchData(d, buf, idx) ==
    LET missingByteCount == d.frameLength - Len(d.frameData)
    IN  IF (Len(buf) - idx) >= missingByteCount
        THEN [d EXCEPT !.frameData =
                          @ \o SubSeq(buf, idx + 1, idx + missingByteCount),
                       !.frameState = "SearchCRC"]
        ELSE [d EXCEPT !.frameData = @ \o SubSeq(buf, idx + 1, Len(buf))]

\* bufferIdx after the SearchData case, before the increment of the loop
SearchDataIdx(d, buf, idx) ==
    LET missingByteCount == d.frameLength - Len(d.frameData)
    IN  IF (Len(buf) - idx) >= missingByteCount
        THEN idx + (missingByteCount - 1)
        ELSE Len(buf)

\* as SearchCRC, the table replaced by one that holds the frame alone
SearchCRC_Replace(d, b) ==
    LET crc == Checksum(d.frameData)
        frame == BytesToIpcFrameV1(d.frameData)
    IN  IF b # crc \/ frame.err
        THEN [d EXCEPT !.frameState = "SearchEnq"]
        ELSE [d EXCEPT !.responses = [k \in {frame.ReqID} |-> frame],
                       !.storeCount = @ + 1,
                       !.frameState = "SearchEnq"]

\* as SearchCRC, without the comparison of the checksum
SearchCRC_NoCheck(d, b) ==
    LET frame == BytesToIpcFrameV1(d.frameData)
    IN  IF frame.err
        THEN [d EXCEPT !.frameState = "SearchEnq"]
        ELSE [d EXCEPT !.responses =
                          [k \in DOMAIN @ \cup {frame.ReqID} |->
                              IF k = frame.ReqID THEN frame ELSE @[k]],
                       !.storeCount = @ + 1,
                       !.frameState = "SearchEnq"]

SearchCRC(d, b) ==
    LET crc == Checksum(d.frameData)
        frame == BytesToIpcFrameV1(d.frameData)
    IN  IF b # crc
        THEN [d EXCEPT !.frameState = "SearchEnq"]
        ELSE IF frame.err
        THEN [d EXCEPT !.frameState = "SearchEnq"]
        ELSE [d EXCEPT !.responses =
                          [k \in DOMAIN @ \cup {frame.ReqID} |->
                              IF k = frame.ReqID THEN frame ELSE @[k]],
                       !.storeCount = @ + 1,
                       !.frameState = "SearchEnq"]

\* the next position at or after idx (0-based) that holds the sync byte, or
\* Len(buf): in SearchEnq every other byte is passed over
NextEnq(buf, idx) ==
    LET at == {j \in idx .. Len(buf) - 1 : buf[j + 1] = ENQ}
    IN  IF at = {} THEN Len(buf)
        ELSE CHOOSE j \in at : \A k \in at : j <= k

\* the inner loop from bufferIdx = idx (already incremented) to the end
RECURSIVE receiveBuffer(_, _, _)
receiveBuffer(d, buf, idx) ==
    IF ~(Len(buf) > idx) THEN d
    ELSE CASE d.frameState = "SearchEnq" ->
                LET j == NextEnq(buf, idx)
                IN  IF j >= Len(buf) THEN d
                    ELSE receiveBuffer(SearchEnq(d, buf[j + 1]), buf, j + 1)
           [] d.frameState = "SearchVersion" ->
                receiveBuffer(SearchVersion(d, buf[idx + 1]), buf, idx + 1)
           [] d.frameState = "SearchLength" ->
                receiveBuffer(SearchLength(d, buf[idx + 1]), buf, idx + 1)
           [] d.frameState = "SearchData" ->
                receiveBuffer(SearchData(d, buf, idx), buf,
                              SearchDataIdx(d, buf, idx) + 1)
           [] d.frameState = "SearchCRC" ->
                receiveBuffer(SearchCRC(d, buf[idx + 1]), buf, idx + 1)

\* the slice of the read buffer taken in the SearchData case at bufferIdx =
\* idx: its bounds, and the count of the bytes still missing
SearchDataSlice(d, buf, idx) ==
    LET missingByteCount == d.frameLength - Len(d.frameData)
    IN  [missing |-> missingByteCount,
         lo |-> idx,
         hi |-> IF (Len(buf) - idx) >= missingByteCount
                THEN idx + missingByteCount
                ELSE Len(buf)]

\* receive's state when its goroutine starts, with an empty table
FreshDecoder ==
    [frameState |-> "SearchEnq", frameLength |-> 0, frameData |-> <<>>,
     responses |-> <<>>, storeCount |-> 0]

\* receive's state of client p as one record
Decoder(p) ==
    [frameState |-> frameState[p], frameLength |-> frameLength[p],
     frameData |-> frameData[p], responses |-> responses,
     storeCount |-> storeCount[p]]

\* where in a frame the decoder stands when a buffer is used up
CutAt(d) ==
    CASE d.frameState = "SearchVersion" -> {"version"}
      [] d.frameState = "SearchLength" /\ d.frameLength = -1 -> {"lengthHi"}
      [] d.frameState = "SearchLength" /\ d.frameLength # -1 -> {"lengthLo"}
      [] d.frameState = "SearchData" /\ d.frameData = <<>> -> {"dataStart"}
      [] d.frameState = "SearchData" /\ d.frameData # <<>> -> {"data"}
      [] d.frameState = "SearchCRC" -> {"crc"}
      [] OTHER -> {}

\* the inner loop of client p run over the bytes buf of one Read; short
\* tells that the Read has left bytes of the stream unread
receivePass(p, buf, short) ==
    LET d == receiveBuffer(Decoder(p), buf, 0)
    IN  /\ frameState' = [frameState EXCEPT ![p] = d.frameState]
        /\ frameLength' = [frameLength EXCEPT ![p] = d.frameLength]
        /\ frameData' = [frameData EXCEPT ![p] = d.frameData]
        /\ responses' = d.responses
        /\ storeCount' = [storeCount EXCEPT ![p] = d.storeCount]
        /\ cuts' = [cuts EXCEPT ![p] =
                        @ \cup CutAt(d) \cup (IF short THEN {"short"} ELSE {})]

\* one pass of the outer loop: Connection.Read gives the first n bytes
ReadBytes(p, n) ==
    /\ reader[p] = "running"
    /\ Connection[p] = "open"
    /\ n >= 1 /\ n <= Len(rx[p]) /\ n <= BufSize
    /\ receivePass(p, SubSeq(rx[p], 1, n), n < Len(rx[p]))
    /\ rx' = [rx EXCEPT ![p] = SubSeq(@, n + 1, Len(@))]
    /\ UNCHANGED <<Connection, tx, RequestId, reader, readErr, callerVars,
                   scenario, minWeightMagnitude, responsesLock, serverVars>>

\* Read returns whatever the peer has written so far, up to the buffer size
Read(p) == ReadBytes(p, Min(Len(rx[p]), BufSize))

(***************************************************************************)
(* Decoder runs: the peer writes one byte stream, built from a scenario:   *)
(* noise, a stray sync byte with the byte after it, a frame with a wrong   *)
(* checksum, and valid frames, in this order.                              *)
(***************************************************************************)
RECURSIVE SeqsUpTo(_, _)
SeqsUpTo(S, n) ==
    IF n = 0 THEN {<<>>}
    ELSE LET shorter == SeqsUpTo(S, n - 1)
         IN  shorter \cup {Append(s, x) : s \in shorter, x \in S}

RECURSIVE Concat(_)
Concat(ss) == IF ss = <<>> THEN <<>> ELSE Head(ss) \o Concat(Tail(ss))

PayloadBytes == {0, FrameVersion, ENQ}
SmallPayloads == SeqsUpTo(PayloadBytes, MaxPayload)
SmallFrames ==
    {IpcFrameV1(id, cmd, data) :
        id \in {1, ENQ}, cmd \in {IpcCmdResponse, ENQ}, data \in SmallPayloads}
FewFrames ==
    {IpcFrameV1(id, IpcCmdResponse, data) :
        id \in {1, ENQ}, data \in {<<>>, <<ENQ, FrameVersion>>}}
\* long payloads: the shortest whose length field uses its high byte, and
\* those at and beyond what the 16 bit length field can carry
LongPayloads ==
    {256 - 2, BufSize, MaxFrameLength - 2, MaxFrameLength - 1, MaxFrameLength}
LongData(n) == [i \in 1 .. n |-> ToByte(i)]
LongFrame(n) == IpcFrameV1(1, IpcCmdResponse, LongData(n))
LongBytes(n) == FrameBytes(1, IpcCmdResponse, LongData(n))
\* the bytes of a frame of n payload bytes on the wire
WireLen(n) == 4 + 2 + n + 1
\* the wire bytes of the long frames, by payload length
LongStream == [n \in LongPayloads |-> LongBytes(n)]

NoiseBytes == {0, FrameVersion, ENQ}
Noises == SeqsUpTo(NoiseBytes, MaxNoise)
\* a stray sync byte: with a byte after it that is not the version byte, or
\* alone, so that the byte after it is the sync byte of the frame
Strays == {<<ENQ, w>> : w \in {0, ENQ, 7}} \cup {<<ENQ>>}

FrameBody(f) == <<f.ReqID, f.Command>> \o f.Data
\* the wire bytes of frame f with checksum byte c in place of its own
FrameBytesCrc(f, c) ==
    SubSeq(FrameBytes(f.ReqID, f.Command, f.Data), 1, 4 + Len(FrameBody(f)))
        \o <<c>>
\* frames whose trailing byte is not the checksum of their content
BadFrames ==
    {[f |-> f, crc |-> c] :
        f \in FewFrames, c \in {0, ENQ, 255}} \cup
    {[f |-> f, crc |-> Xor(Checksum(FrameBody(f)), 1)] : f \in FewFrames} \cup
    {[f |-> IpcFrameV1(1, IpcCmdResponse, <<Xor(x, b)>>),
      crc |-> Checksum(<<1, IpcCmdResponse, x>>)] :
        x \in {0, ENQ}, b \in {1, 128}}

\* streams that are a frame header and then any bytes: the length read is
\* any at all, zero and longer than the rest of the stream included
MaxRaw == 4
RawBytes == {0, 1, 2, ENQ}
RawStreams == {<<ENQ, FrameVersion>> \o s : s \in SeqsUpTo(RawBytes, MaxRaw)}

\* frames read in one buffer
MaxFrames == 3
\* k frames with the request ids 1 .. k, starting with id first; the
\* payloads are all empty, or alternate between empty and one sync byte
MultiFrames(k) ==
    {[i \in 1 .. k |->
         IpcFrameV1(((first + i - 2) % k) + 1, IpcCmdResponse,
                    IF (i + odd) % 2 = 0 /\ odd < 2 THEN <<ENQ>> ELSE <<>>)] :
        first \in {1, k}, odd \in 0 .. 2}

Scenarios ==
    UNION {{[kind |-> "multi", noise |-> <<>>, stray |-> <<>>, bad |-> <<>>,
             frames |-> fs, len |-> 0, read |-> 0] : fs \in MultiFrames(k)} :
           k \in 2 .. MaxFrames}
    \cup
    {[kind |-> "raw", noise |-> s, stray |-> <<>>, bad |-> <<>>,
      frames |-> <<>>, len |-> 0, read |-> 0] : s \in RawStreams}
    \cup
    {[kind |-> "plain", noise |-> <<>>, stray |-> <<>>, bad |-> <<>>,
      frames |-> <<f>>, len |-> 0, read |-> 0] : f \in SmallFrames}
    \cup
    {[kind |-> "long", noise |-> <<>>, stray |-> <<>>, bad |-> <<>>,
      frames |-> <<>>, len |-> n, read |-> 0] : n \in LongPayloads}
    \cup
    {[kind |-> "resync", noise |-> n, stray |-> s, bad |-> <<>>,
      frames |-> <<f>>, len |-> 0, read |-> 0] :
        n \in Noises, s \in Strays, f \in FewFrames}
    \cup
    {[kind |-> "badcrc", noise |-> <<>>, stray |-> <<>>, bad |-> <<b>>,
      frames |-> <<f>>, len |-> 0, read |-> 0] :
        b \in {x \in BadFrames : x.crc # Checksum(FrameBody(x.f))},
        f \in FewFrames}

Stream(sc) ==
    sc.noise \o sc.stray
        \o Concat([i \in 1 .. Len(sc.bad) |->
                      FrameBytesCrc(sc.bad[i].f, sc.bad[i].crc)])
        \o Concat([i \in 1 .. Len(sc.frames) |->
                      FrameBytes(sc.frames[i].ReqID, sc.frames[i].Command,
                                 sc.frames[i].Data)])

NoScenario ==
    [kind |-> "none", noise |-> <<>>, stray |-> <<>>, bad |-> <<>>,
     frames |-> <<>>, len |-> 0, read |-> 0]

(***************************************************************************)
(* The state after PowClient.Init on client 1; client 2 is not yet         *)
(* initialised.                                                            *)
(***************************************************************************)
NoRet == [kind |-> "none", id |-> 0, data |-> <<>>]

\* a call made on sendIpcFrameV1ToServer itself, not through PowFunc
NoArg == 256
\* such a call with data too long for the length field of a frame
TooLong == 257

\* the connections clients make to the server, and its configured devices
Conns == {1, 2}
Devices == {1, 2}

\* the server after start-up: listening, no connection made, devices idle
ServerInit ==
    /\ sconn = [c \in Conns |-> "none"]
    /\ backlog = <<>>
    /\ handling = 0
    /\ pending = [c \in Conns |-> 0]
    /\ PowMutex = [d \in Devices |-> 0]
    /\ inPow = [d \in Devices |-> {}]
    /\ hpc = [c \in Conns |-> "read"]
    /\ nRequests = [c \in Conns |-> 0]

Init ==
    /\ Connection = [p \in Clients |-> IF p = 1 THEN "open" ELSE "nil"]
    /\ rx = [p \in Clients |-> <<>>]
    /\ tx = [p \in Clients |-> <<>>]
    /\ RequestId = [p \in Clients |-> 0]
    /\ frameState = [p \in Clients |-> "SearchEnq"]
    /\ frameLength = [p \in Clients |-> 0]
    /\ frameData = [p \in Clients |-> <<>>]
    /\ reader = [p \in Clients |-> IF p = 1 THEN "running" ELSE "off"]
    /\ readErr = [p \in Clients |-> FALSE]
    /\ responses = <<>>
    /\ storeCount = [p \in Clients |-> 0]
    /\ cuts = [p \in Clients |-> {}]
    /\ pc = [c \in Callers |-> "idle"]
    /\ cli = [c \in Callers |-> 1]
    /\ reqID = [c \in Callers |-> 0]
    /\ elapsed = [c \in Callers |-> 0]
    /\ ret = [c \in Callers |-> NoRet]
    /\ callNo = [c \in Callers |-> 0]
    /\ answered = [c \in Callers |-> FALSE]
    /\ nCalls = [p \in Clients |-> 0]
    /\ nTimeouts = 0
    /\ scenario = NoScenario
    /\ minWeightMagnitude = [c \in Callers |-> NoArg]
    /\ responsesLock = <<>>
    /\ ServerInit

\* the peer has written the stream of one scenario to client 1
InitDecode ==
    /\ scenario \in Scenarios
    /\ rx = [p \in Clients |-> IF p = 1 THEN Stream(scenario) ELSE <<>>]
    /\ Connection = [p \in Clients |-> IF p = 1 THEN "open" ELSE "nil"]
    /\ tx = [p \in Clients |-> <<>>]
    /\ RequestId = [p \in Clients |-> 0]
    /\ frameState = [p \in Clients |-> "SearchEnq"]
    /\ frameLength = [p \in Clients |-> 0]
    /\ frameData = [p \in Clients |-> <<>>]
    /\ reader = [p \in Clients |-> IF p = 1 THEN "running" ELSE "off"]
    /\ readErr = [p \in Clients |-> FALSE]
    /\ responses = <<>>
    /\ storeCount = [p \in Clients |-> 0]
    /\ cuts = [p \in Clients |-> {}]
    /\ pc = [c \in Callers |-> "idle"]
    /\ cli = [c \in Callers |-> 1]
    /\ reqID = [c \in Callers |-> 0]
    /\ elapsed = [c \in Callers |-> 0]
    /\ ret = [c \in Callers |-> NoRet]
    /\ callNo = [c \in Callers |-> 0]
    /\ answered = [c \in Callers |-> FALSE]
    /\ nCalls = [p \in Clients |-> 0]
    /\ nTimeouts = 0
    /\ minWeightMagnitude = [c \in Callers |-> NoArg]
    /\ responsesLock = <<>>
    /\ ServerInit

\* Read returns any non-empty part of what the peer has written
ReadChunk(p) == \E n \in 1 .. Len(rx[p]) : ReadBytes(p, n)

\* a long frame is not held in rx: the peer writes it as the reader reads,
\* and each Read returns the next bytes of it, as many as the buffer takes
ReadLong(p) ==
    /\ scenario.kind = "long"
    /\ reader[p] = "running"
    /\ Connection[p] = "open"
    /\ LET n == Min(WireLen(scenario.len) - scenario.read, BufSize)
       IN  /\ n >= 1
           /\ receivePass(p, SubSeq(LongStream[scenario.len],
                                    scenario.read + 1, scenario.read + n),
                          scenario.read + n < WireLen(scenario.len))
           /\ scenario' = [scenario EXCEPT !.read = @ + n]
    /\ UNCHANGED <<Connection, rx, tx, RequestId, reader, readErr, callerVars,
                   minWeightMagnitude, responsesLock, serverVars>>

NextDecode == ReadChunk(1) \/ ReadLong(1)

SpecDecode == InitDecode /\ [][NextDecode]_vars

(***************************************************************************)
(* PowClient.sendIpcFrameV1ToServer, one call per caller at a time.        *)
(***************************************************************************)
\* what a call sends: the client it is made on and the number of the call
\* on that client, high byte and low byte
CallData(c) == <<cli[c], ToByte(callNo[c] \div 256), ToByte(callNo[c])>>

\* the highest difficulty PowFunc accepts
MaxMwm == 243
\* the difficulties PowFunc is called with
MwmArgs == {-1, 0, MaxMwm, MaxMwm + 1}

\* the data of the request: the call's own data, after the difficulty byte
\* when the call comes from PowFunc
SendData(c) ==
    IF minWeightMagnitude[c] = NoArg
    THEN CallData(c)
    ELSE IF minWeightMagnitude[c] = TooLong
    THEN LongData(MaxFrameLength - 1)
    ELSE <<ToByte(minWeightMagnitude[c])>> \o CallData(c)

\* NewIpcMessageV1 and ToBytes: the wire bytes, or <<>> when the length does
\* not fit the 16 bit length field
ToBytes(id, cmd, data) ==
    IF Len(data) + 2 > MaxFrameLength THEN <<>> ELSE FrameBytes(id, cmd, data)

\* as AllocReqID, the counter left as it was
AllocReqID_NoIncrement(c, p, limit) ==
    /\ pc[c] \in {"idle", "done"}
    /\ nCalls[p] < limit
    /\ RequestId' = RequestId
    /\ reqID' = [reqID EXCEPT ![c] = ToByte(RequestId[p] + 1)]
    /\ cli' = [cli EXCEPT ![c] = p]
    /\ callNo' = [callNo EXCEPT ![c] = nCalls[p] + 1]
    /\ nCalls' = [nCalls EXCEPT ![p] = @ + 1]
    /\ pc' = [pc EXCEPT ![c] = "send"]
    /\ ret' = [ret EXCEPT ![c] = NoRet]
    /\ elapsed' = [elapsed EXCEPT ![c] = 0]
    /\ answered' = [answered EXCEPT ![c] = FALSE]
    /\ UNCHANGED <<Connection, rx, tx, reader, readErr, readerVars,
                   nTimeouts, scenario,
                   minWeightMagnitude, responsesLock, serverVars>>

\* as AllocReqID, the counter stopping at 255
AllocReqID_NoWrap(c, p, limit) ==
    /\ pc[c] \in {"idle", "done", "call"}
    /\ nCalls[p] < limit
    /\ RequestId' = [RequestId EXCEPT ![p] = Min(@ + 1, 255)]
    /\ reqID' = [reqID EXCEPT ![c] = Min(RequestId[p] + 1, 255)]
    /\ cli' = [cli EXCEPT ![c] = p]
    /\ callNo' = [callNo EXCEPT ![c] = nCalls[p] + 1]
    /\ nCalls' = [nCalls EXCEPT ![p] = @ + 1]
    /\ pc' = [pc EXCEPT ![c] = "send"]
    /\ ret' = [ret EXCEPT ![c] = NoRet]
    /\ elapsed' = [elapsed EXCEPT ![c] = 0]
    /\ answered' = [answered EXCEPT ![c] = FALSE]
    /\ UNCHANGED <<Connection, rx, tx, reader, readErr, readerVars,
                   nTimeouts, scenario,
                   minWeightMagnitude, responsesLock, serverVars>>

\* the call starts: RequestId is incremented and copied under RequestIdLock
AllocReqID(c, p, limit) ==
    /\ pc[c] \in {"idle", "done", "call"}
    /\ nCalls[p] < limit
    /\ RequestId' = [RequestId EXCEPT ![p] = ToByte(@ + 1)]
    /\ reqID' = [reqID EXCEPT ![c] = ToByte(RequestId[p] + 1)]
    /\ cli' = [cli EXCEPT ![c] = p]
    /\ callNo' = [callNo EXCEPT ![c] = nCalls[p] + 1]
    /\ nCalls' = [nCalls EXCEPT ![p] = @ + 1]
    /\ pc' = [pc EXCEPT ![c] = "send"]
    /\ ret' = [ret EXCEPT ![c] = NoRet]
    /\ elapsed' = [elapsed EXCEPT ![c] = 0]
    /\ answered' = [answered EXCEPT ![c] = FALSE]
    /\ UNCHANGED <<Connection, rx, tx, reader, readErr, readerVars,
                   nTimeouts, scenario,
                   minWeightMagnitude, responsesLock, serverVars>>

\* as SendRequest, a call that fails looking for its answer before it returns
SendRequest_Lookup(c) ==
    /\ pc[c] = "send"
    /\ LET request == ToBytes(reqID[c], IpcCmdPowFunc, SendData(c))
       IN  IF request = <<>> \/ Connection[cli[c]] # "open"
           THEN /\ ret' = [ret EXCEPT ![c] =
                              [kind |-> "write error", id |-> 0, data |-> <<>>]]
                /\ pc' = [pc EXCEPT ![c] = "done"]
                /\ responses' = [j \in DOMAIN responses \ {reqID[c]} |->
                                     responses[j]]
                /\ UNCHANGED <<tx, elapsed>>
           ELSE /\ tx' = [tx EXCEPT ![cli[c]] = Append(@, request)]
                /\ elapsed' = [elapsed EXCEPT ![c] = 0]
                /\ pc' = [pc EXCEPT ![c] = "poll"]
                /\ UNCHANGED <<ret, responses>>
    /\ UNCHANGED <<Connection, rx, RequestId, reader, readErr, frameState,
                   frameLength, frameData, storeCount, cuts,
                   cli, reqID, callNo, answered, nCalls, nTimeouts, scenario,
                   minWeightMagnitude, responsesLock, serverVars>>

\* the request is encoded and written (sendToServer), then ts is taken
SendRequest(c) ==
    /\ pc[c] = "send"
    /\ LET request == ToBytes(reqID[c], IpcCmdPowFunc, SendData(c))
       IN  IF request = <<>> \/ Connection[cli[c]] # "open"
           THEN /\ ret' = [ret EXCEPT ![c] =
                              [kind |-> "write error", id |-> 0, data |-> <<>>]]
                /\ pc' = [pc EXCEPT ![c] = "done"]
                /\ UNCHANGED <<tx, elapsed>>
           ELSE /\ tx' = [tx EXCEPT ![cli[c]] = Append(@, request)]
                /\ elapsed' = [elapsed EXCEPT ![c] = 0]
                /\ pc' = [pc EXCEPT ![c] = "poll"]
                /\ UNCHANGED ret
    /\ UNCHANGED <<Connection, rx, RequestId, reader, readErr, readerVars,
                   cli, reqID, callNo, answered, nCalls, nTimeouts, scenario,
                   minWeightMagnitude, responsesLock, serverVars>>

\* sendIpcFrameV1ToServer is called with data that fit a frame, or do not
DirectCall(c, long) ==
    /\ pc[c] \in {"idle", "done"}
    /\ minWeightMagnitude' =
           [minWeightMagnitude EXCEPT ![c] = IF long THEN TooLong ELSE NoArg]
    /\ pc' = [pc EXCEPT ![c] = "call"]
    /\ ret' = [ret EXCEPT ![c] = NoRet]
    /\ UNCHANGED <<Connection, rx, tx, RequestId, reader, readErr, readerVars,
                   cli, reqID, elapsed, callNo, answered, nCalls, nTimeouts,
                   scenario, responsesLock, serverVars>>

\* as PowFunc, without the upper bound of the difficulty
PowFunc_NoUpperBound(c, m) ==
    /\ pc[c] \in {"idle", "done"}
    /\ minWeightMagnitude' = [minWeightMagnitude EXCEPT ![c] = m]
    /\ IF m < 0
       THEN /\ ret' = [ret EXCEPT ![c] =
                          [kind |-> "range error", id |-> 0, data |-> <<>>]]
            /\ pc' = [pc EXCEPT ![c] = "done"]
       ELSE /\ ret' = [ret EXCEPT ![c] = NoRet]
            /\ pc' = [pc EXCEPT ![c] = "call"]
    /\ UNCHANGED <<Connection, rx, tx, RequestId, reader, readErr, readerVars,
                   cli, reqID, elapsed, callNo, answered, nCalls, nTimeouts,
                   scenario, responsesLock, serverVars>>

\* PowClient.PowFunc with difficulty m: out of range it returns an error,
\* in range it goes on to sendIpcFrameV1ToServer
PowFunc(c, m) ==
    /\ pc[c] \in {"idle", "done"}
    /\ minWeightMagnitude' = [minWeightMagnitude EXCEPT ![c] = m]
    /\ IF m < 0 \/ m > MaxMwm
       THEN /\ ret' = [ret EXCEPT ![c] =
                          [kind |-> "range error", id |-> 0, data |-> <<>>]]
            /\ pc' = [pc EXCEPT ![c] = "done"]
       ELSE /\ ret' = [ret EXCEPT ![c] = NoRet]
            /\ pc' = [pc EXCEPT ![c] = "call"]
    /\ UNCHANGED <<Connection, rx, tx, RequestId, reader, readErr, readerVars,
                   cli, reqID, elapsed, callNo, answered, nCalls, nTimeouts,
                   scenario, responsesLock, serverVars>>

\* fmt.Errorf with a format and no operands, on bytes: text is copied, "%%"
\* gives "%", "%" and a verb give "%!verb(MISSING)", a "%" at the end gives
\* "%!(NOVERB)"; the formats used have letters as verbs, no flags or widths
Percent == 37
percentBangString == <<37, 33>>
missingString == <<40, 77, 73, 83, 83, 73, 78, 71, 41>>
noVerbString == <<37, 33, 40, 78, 79, 86, 69, 82, 66, 41>>
RECURSIVE doPrintf(_, _)
doPrintf(format, i) ==
    IF i > Len(format) THEN <<>>
    ELSE IF format[i] # Percent
    THEN <<format[i]>> \o doPrintf(format, i + 1)
    ELSE IF i = Len(format) THEN noVerbString
    ELSE IF format[i + 1] = Percent
    THEN <<Percent>> \o doPrintf(format, i + 2)
    ELSE percentBangString \o <<format[i + 1]>> \o missingString
             \o doPrintf(format, i + 2)
Errorf(format) == doPrintf(format, 1)

\* what the call returns for the frame it has claimed
Reply(frame) ==
    CASE frame.Command = IpcCmdResponse ->
            [kind |-> "payload", id |-> frame.ReqID, data |-> frame.Data]
      [] frame.Command = IpcCmdError ->
            [kind |-> "error", id |-> frame.ReqID,
             data |-> Errorf(frame.Data)]
      [] OTHER ->
            [kind |-> "unknown command", id |-> frame.ReqID, data |-> <<>>]

\* as Without, the entry left in the table
Without_Keep(table, k) == table

\* delete(responses, k)
Without(table, k) == [j \in DOMAIN table \ {k} |-> table[j]]

\* as Poll, the timeout taken one tick early
Poll_EarlyTimeout(c) ==
    /\ pc[c] = "poll"
    /\ IF elapsed[c] + 1 > ReadTimeOutMs
       THEN /\ ret' = [ret EXCEPT ![c] =
                          [kind |-> "timeout", id |-> 0, data |-> <<>>]]
            /\ pc' = [pc EXCEPT ![c] = "done"]
            /\ nTimeouts' = nTimeouts + 1
            /\ UNCHANGED responses
       ELSE IF reqID[c] \in DOMAIN responses
       THEN /\ ret' = [ret EXCEPT ![c] = Reply(responses[reqID[c]])]
            /\ responses' = Without(responses, reqID[c])
            /\ pc' = [pc EXCEPT ![c] = "done"]
            /\ UNCHANGED nTimeouts
       ELSE UNCHANGED <<ret, pc, nTimeouts, responses>>
    /\ UNCHANGED <<Connection, rx, tx, RequestId, reader, readErr, frameState,
                   frameLength, frameData, storeCount, cuts, cli, reqID,
                   elapsed, callNo, answered, nCalls, scenario,
                   minWeightMagnitude, responsesLock, serverVars>>

\* as Poll, any stored frame taken for the caller's own
Poll_AnyEntry(c) ==
    /\ pc[c] = "poll"
    /\ IF elapsed[c] > ReadTimeOutMs
       THEN /\ ret' = [ret EXCEPT ![c] =
                          [kind |-> "timeout", id |-> 0, data |-> <<>>]]
            /\ pc' = [pc EXCEPT ![c] = "done"]
            /\ nTimeouts' = nTimeouts + 1
            /\ UNCHANGED responses
       ELSE IF DOMAIN responses # {}
       THEN LET k == CHOOSE j \in DOMAIN responses :
                         \A i \in DOMAIN responses : j <= i
            IN  /\ ret' = [ret EXCEPT ![c] = Reply(responses[k])]
                /\ responses' = Without(responses, k)
                /\ pc' = [pc EXCEPT ![c] = "done"]
                /\ UNCHANGED nTimeouts
       ELSE UNCHANGED <<ret, pc, nTimeouts, responses>>
    /\ UNCHANGED <<Connection, rx, tx, RequestId, reader, readErr, frameState,
                   frameLength, frameData, storeCount, cuts, cli, reqID,
                   elapsed, callNo, answered, nCalls, scenario,
                   minWeightMagnitude, responsesLock, serverVars>>

\* one pass of the wait loop: the timeout check, then the look-up and the
\* delete under responsesLock, then the return
Poll(c) ==
    /\ pc[c] = "poll"
    /\ IF elapsed[c] > ReadTimeOutMs
       THEN /\ ret' = [ret EXCEPT ![c] =
                          [kind |-> "timeout", id |-> 0, data |-> <<>>]]
            /\ pc' = [pc EXCEPT ![c] = "done"]
            /\ nTimeouts' = nTimeouts + 1
            /\ UNCHANGED responses
       ELSE IF reqID[c] \in DOMAIN responses
       THEN /\ ret' = [ret EXCEPT ![c] = Reply(responses[reqID[c]])]
            /\ responses' = Without(responses, reqID[c])
            /\ pc' = [pc EXCEPT ![c] = "done"]
            /\ UNCHANGED nTimeouts
       ELSE UNCHANGED <<ret, pc, nTimeouts, responses>>
    /\ UNCHANGED <<Connection, rx, tx, RequestId, reader, readErr, frameState,
                   frameLength, frameData, storeCount, cuts, cli, reqID,
                   elapsed, callNo, answered, nCalls, scenario,
                   minWeightMagnitude, responsesLock, serverVars>>

\* callers whose wait runs out with the next tick
Expiring == {c \in Callers : pc[c] = "poll" /\ elapsed[c] = ReadTimeOutMs}
\* callers whose wait has run out and who have not yet returned
Expired == {c \in Callers : pc[c] = "poll" /\ elapsed[c] > ReadTimeOutMs}

\* time.Since(ts) grows by one tick for every waiting caller; budget bounds
\* the calls that are let run into their timeout
Tick(budget) ==
    /\ \E c \in Callers : pc[c] = "poll" /\ elapsed[c] <= ReadTimeOutMs
    /\ nTimeouts + Cardinality(Expired) + Cardinality(Expiring) <= budget
    /\ elapsed' = [c \in Callers |->
                      IF pc[c] = "poll"
                      THEN Min(elapsed[c] + 1, ReadTimeOutMs + 1)
                      ELSE elapsed[c]]
    /\ UNCHANGED <<Connection, rx, tx, RequestId, reader, readErr, readerVars,
                   pc, cli, reqID, ret, callNo, answered, nCalls, nTimeouts,
                   scenario, minWeightMagnitude, responsesLock, serverVars>>

(***************************************************************************)
(* PowClient.Init, PowClient.Close and the failing Read.                   *)
(***************************************************************************)
\* Init has come to the assignment that replaces the package-level table;
\* it takes no lock for it
InitMake(p) ==
    /\ Connection[p] = "nil"
    /\ Connection' = [Connection EXCEPT ![p] = "make"]
    /\ UNCHANGED <<rx, tx, RequestId, reader, readErr, readerVars, callerVars,
                   scenario, minWeightMagnitude, responsesLock, serverVars>>

\* Init on a client not yet initialised: the package-level table is
\* replaced by an empty one, the connection dialled, receive started.  An
\* access of another goroutine that is under way when the table is replaced
\* works on the old table or on the new one: as if it had come before this
\* step or after it
PowClientInit(p) ==
    /\ Connection[p] \in {"nil", "make"}
    /\ responses' = <<>>
    /\ Connection' = [Connection EXCEPT ![p] = "open"]
    /\ reader' = [reader EXCEPT ![p] = "running"]
    /\ frameState' = [frameState EXCEPT ![p] = "SearchEnq"]
    /\ frameLength' = [frameLength EXCEPT ![p] = 0]
    /\ frameData' = [frameData EXCEPT ![p] = <<>>]
    /\ UNCHANGED <<rx, tx, RequestId, readErr, storeCount, cuts, callerVars,
                   scenario, minWeightMagnitude, responsesLock, serverVars>>

Close(p) ==
    /\ Connection[p] = "open"
    /\ Connection' = [Connection EXCEPT ![p] = "closed"]
    /\ UNCHANGED <<rx, tx, RequestId, reader, readErr, readerVars, callerVars,
                   scenario, minWeightMagnitude, responsesLock, serverVars>>

\* Read on the closed connection returns an error: receive goes on with the
\* next pass of its loop
ReadError(p) ==
    /\ reader[p] = "running"
    /\ Connection[p] = "closed"
    /\ readErr' = [readErr EXCEPT ![p] = TRUE]
    /\ UNCHANGED <<Connection, rx, tx, RequestId, reader, readerVars,
                   callerVars, scenario,
                   minWeightMagnitude, responsesLock, serverVars>>

(***************************************************************************)
(* The peer: it takes the requests of a connection in the order they were  *)
(* written and answers a request with one frame that carries the request's *)
(* id and payload, or leaves it unanswered.                                *)
(***************************************************************************)
\* the frame the peer's decoder makes of the bytes of one request
RequestFrame(bytes) ==
    LET d == receiveBuffer(FreshDecoder, bytes, 0)
    IN  d.responses[CHOOSE k \in DOMAIN d.responses : TRUE]

\* the callers whose current call wrote the request req on connection p
CallersOf(p, req) ==
    {c \in Callers : /\ pc[c] \in {"poll", "done"}
                     /\ cli[c] = p
                     /\ reqID[c] = req.ReqID
                     /\ SendData(c) = req.Data}

ServerReply(p, cmd) ==
    /\ tx[p] # <<>>
    /\ Connection[p] = "open"
    /\ LET req == RequestFrame(Head(tx[p]))
       IN  /\ rx' = [rx EXCEPT ![p] = @ \o FrameBytes(req.ReqID, cmd, req.Data)]
           /\ answered' = [c \in Callers |->
                              answered[c] \/ c \in CallersOf(p, req)]
    /\ tx' = [tx EXCEPT ![p] = Tail(@)]
    /\ UNCHANGED <<Connection, RequestId, reader, readErr, readerVars, pc,
                   cli, reqID, elapsed, ret, callNo, nCalls, nTimeouts,
                   scenario, minWeightMagnitude, responsesLock, serverVars>>

\* the commands and the texts the peer answers with
ReplyCmds == {IpcCmdResponse, IpcCmdError, IpcCmdNotification, IpcCmdPowFunc}
ReplyTexts == {<<>>, <<69>>, <<Percent>>, <<Percent, 100>>,
               <<Percent, Percent>>, <<69, Percent>>}

\* the peer answers the next request with command cmd and payload data
ServerAnswer(p, cmd, data) ==
    /\ tx[p] # <<>>
    /\ Connection[p] = "open"
    /\ LET req == RequestFrame(Head(tx[p]))
       IN  /\ rx' = [rx EXCEPT ![p] = @ \o FrameBytes(req.ReqID, cmd, data)]
           /\ answered' = [c \in Callers |->
                              answered[c] \/ c \in CallersOf(p, req)]
    /\ tx' = [tx EXCEPT ![p] = Tail(@)]
    /\ UNCHANGED <<Connection, RequestId, reader, readErr, readerVars, pc,
                   cli, reqID, elapsed, ret, callNo, nCalls, nTimeouts,
                   scenario, minWeightMagnitude, responsesLock, serverVars>>

ServerDrop(p) ==
    /\ tx[p] # <<>>
    /\ tx' = [tx EXCEPT ![p] = Tail(@)]
    /\ UNCHANGED <<Connection, rx, RequestId, reader, readErr, readerVars,
                   callerVars, scenario,
                   minWeightMagnitude, responsesLock, serverVars>>

(***************************************************************************)
(* The server: main's accept loop, which calls HandleClientConnection and  *)
(* goes back to Accept when it returns, and the handler of a connection,   *)
(* which answers one request after the other and returns when the client   *)
(* has closed the connection.                                              *)
(***************************************************************************)
\* requests a client writes on one connection
MaxRequests == 2

clientVars ==
    <<Connection, rx, tx, RequestId, reader, readErr, readerVars, callerVars,
      scenario, minWeightMagnitude, responsesLock>>

\* a client connects: the connection is made and waits for Accept
Dial(c) ==
    /\ sconn[c] = "none"
    /\ sconn' = [sconn EXCEPT ![c] = "open"]
    /\ backlog' = Append(backlog, c)
    /\ UNCHANGED <<handling, pending, PowMutex, inPow, hpc, nRequests,
                   clientVars>>

\* a client writes a PowFunc request for device d on its connection
ClientRequest(c, d) ==
    /\ sconn[c] = "open"
    /\ pending[c] = 0
    /\ nRequests[c] < MaxRequests
    /\ pending' = [pending EXCEPT ![c] = d]
    /\ nRequests' = [nRequests EXCEPT ![c] = @ + 1]
    /\ UNCHANGED <<sconn, backlog, handling, PowMutex, inPow, hpc, clientVars>>

ClientClose(c) ==
    /\ sconn[c] = "open"
    /\ sconn' = [sconn EXCEPT ![c] = "closed"]
    /\ UNCHANGED <<backlog, handling, pending, PowMutex, inPow, hpc,
                   nRequests, clientVars>>

\* ln.Accept returns the next connection and main calls
\* HandleClientConnection on it
Accept ==
    /\ handling = 0
    /\ backlog # <<>>
    /\ handling' = Head(backlog)
    /\ backlog' = Tail(backlog)
    /\ hpc' = [hpc EXCEPT ![Head(backlog)] = "read"]
    /\ UNCHANGED <<sconn, pending, PowMutex, inPow, nRequests, clientVars>>

\* as HandlerLock, without taking the mutex of the device
HandlerLock_NoMutex(c) ==
    /\ handling = c
    /\ hpc[c] = "read"
    /\ pending[c] # 0
    /\ hpc' = [hpc EXCEPT ![c] = "locked"]
    /\ UNCHANGED <<sconn, backlog, handling, pending, PowMutex, inPow,
                   nRequests, clientVars>>

\* the handler has decoded a PowFunc request and takes the device's mutex
HandlerLock(c) ==
    /\ handling = c
    /\ hpc[c] = "read"
    /\ pending[c] # 0
    /\ PowMutex[pending[c]] = 0
    /\ PowMutex' = [PowMutex EXCEPT ![pending[c]] = c]
    /\ hpc' = [hpc EXCEPT ![c] = "locked"]
    /\ UNCHANGED <<sconn, backlog, handling, pending, inPow, nRequests,
                   clientVars>>

\* the handler calls the device's PowFunc
HandlerPowFunc(c) ==
    /\ handling = c
    /\ hpc[c] = "locked"
    /\ inPow' = [inPow EXCEPT ![pending[c]] = @ \cup {c}]
    /\ hpc' = [hpc EXCEPT ![c] = "compute"]
    /\ UNCHANGED <<sconn, backlog, handling, pending, PowMutex, nRequests,
                   clientVars>>

\* PowFunc returns, the mutex is released and the reply written
HandlerReply(c) ==
    /\ handling = c
    /\ hpc[c] = "compute"
    /\ inPow' = [inPow EXCEPT ![pending[c]] = @ \ {c}]
    /\ PowMutex' = [PowMutex EXCEPT ![pending[c]] =
                       IF @ = c THEN 0 ELSE @]
    /\ pending' = [pending EXCEPT ![c] = 0]
    /\ hpc' = [hpc EXCEPT ![c] = "read"]
    /\ UNCHANGED <<sconn, backlog, handling, nRequests, clientVars>>

\* the read of the handler fails on the closed connection: the handler
\* returns and main goes back to Accept
HandlerExit(c) ==
    /\ handling = c
    /\ hpc[c] = "read"
    /\ pending[c] = 0
    /\ sconn[c] = "closed"
    /\ handling' = 0
    /\ UNCHANGED <<sconn, backlog, pending, PowMutex, inPow, hpc, nRequests,
                   clientVars>>

NextServer ==
    \/ \E c \in Conns : Dial(c)
    \/ \E c \in Conns, d \in Devices : ClientRequest(c, d)
    \/ \E c \in Conns : ClientClose(c)
    \/ Accept
    \/ \E c \in Conns : HandlerLock(c)
    \/ \E c \in Conns : HandlerPowFunc(c)
    \/ \E c \in Conns : HandlerReply(c)
    \/ \E c \in Conns : HandlerExit(c)

SpecServer == Init /\ [][NextServer]_vars

(***************************************************************************)
(* Specifications.                                                         *)
(***************************************************************************)
\* one client, concurrent callers, a bounded number of calls
Next ==
    \/ \E c \in Callers : AllocReqID(c, 1, MaxCalls)
    \/ \E c \in Callers : SendRequest(c)
    \/ \E c \in Callers : Poll(c)
    \/ Tick(MaxCalls)
    \/ Read(1)
    \/ ServerReply(1, IpcCmdResponse)
    \/ ServerDrop(1)

Spec == Init /\ [][Next]_vars

\* the same, and the client may be closed at any time
NextClose ==
    \/ Next
    \/ Close(1)
    \/ ReadError(1)

SpecClose == Init /\ [][NextClose]_vars

\* one client, one caller, calls one after the other until the request ids
\* have wrapped around
NextWrap ==
    \/ AllocReqID(1, 1, 256 + WrapExtra)
    \/ SendRequest(1)
    \/ Poll(1)
    \/ Tick(MaxTimeouts)
    \/ Read(1)
    \/ ServerReply(1, IpcCmdResponse)

SpecWrap == Init /\ [][NextWrap]_vars

\* the same, with slow answers to the first calls only
NextSeq ==
    \/ AllocReqID(1, 1, 256 + WrapExtra)
    \/ SendRequest(1)
    \/ Poll(1)
    \/ (callNo[1] <= MaxTimeouts /\ Tick(MaxTimeouts))
    \/ Read(1)
    \/ ServerReply(1, IpcCmdResponse)

SpecSeq == Init /\ [][NextSeq]_vars

\* the calls that are let fail: the first ones and those about the wrap
FailingCall(p) == nCalls[p] < MaxTimeouts \/ nCalls[p] >= 256 - WrapExtra

\* one caller, calls one after the other past the wrap of the request ids;
\* of the calls let fail some have data that cannot be encoded, some get no
\* answer, some find the connection closed
NextIds ==
    \/ \E long \in BOOLEAN :
          /\ nCalls[1] < 256 + WrapExtra
          /\ long => FailingCall(1)
          /\ DirectCall(1, long)
    \/ (pc[1] = "call" /\ AllocReqID(1, 1, 256 + WrapExtra))
    \/ SendRequest(1)
    \/ Poll(1)
    \/ (callNo[1] <= MaxTimeouts /\ Tick(MaxTimeouts))
    \/ Read(1)
    \/ ServerReply(1, IpcCmdResponse)
    \/ (FailingCall(1) /\ Close(1))

SpecIds == Init /\ [][NextIds]_vars

(***************************************************************************)
(* The accesses to the table step by step: Lock, the access, Unlock.       *)
(***************************************************************************)
\* the wait loop has passed the timeout check and takes responsesLock
PollLock(c) ==
    /\ pc[c] = "poll"
    /\ elapsed[c] <= ReadTimeOutMs
    /\ responsesLock = <<>>
    /\ responsesLock' = <<"caller", c>>
    /\ pc' = [pc EXCEPT ![c] = "locked"]
    /\ UNCHANGED <<Connection, rx, tx, RequestId, reader, readErr, readerVars,
                   cli, reqID, elapsed, ret, callNo, answered, nCalls,
                   nTimeouts, scenario, minWeightMagnitude, serverVars>>

\* as PollLocked, the frame found left in the table
PollLocked_NoDelete(c) ==
    /\ pc[c] = "locked"
    /\ IF reqID[c] \in DOMAIN responses
       THEN /\ ret' = [ret EXCEPT ![c] = Reply(responses[reqID[c]])]
            /\ pc' = [pc EXCEPT ![c] = "done"]
            /\ UNCHANGED responses
       ELSE /\ pc' = [pc EXCEPT ![c] = "poll"]
            /\ UNCHANGED <<ret, responses>>
    /\ responsesLock' = <<>>
    /\ UNCHANGED <<Connection, rx, tx, RequestId, reader, readErr, frameState,
                   frameLength, frameData, storeCount, cuts, cli, reqID,
                   elapsed, callNo, answered, nCalls, nTimeouts, scenario,
                   minWeightMagnitude, serverVars>>

\* the look-up and the delete, then Unlock and the return or the next pass
PollLocked(c) ==
    /\ pc[c] = "locked"
    /\ IF reqID[c] \in DOMAIN responses
       THEN /\ ret' = [ret EXCEPT ![c] = Reply(responses[reqID[c]])]
            /\ responses' = Without(responses, reqID[c])
            /\ pc' = [pc EXCEPT ![c] = "done"]
       ELSE /\ pc' = [pc EXCEPT ![c] = "poll"]
            /\ UNCHANGED <<ret, responses>>
    /\ responsesLock' = <<>>
    /\ UNCHANGED <<Connection, rx, tx, RequestId, reader, readErr, frameState,
                   frameLength, frameData, storeCount, cuts, cli, reqID,
                   elapsed, callNo, answered, nCalls, nTimeouts, scenario,
                   minWeightMagnitude, serverVars>>

\* as PollCheck, without the test of the time passed
PollCheck_NoTimeout(c) ==
    /\ pc[c] = "poll"
    /\ pc' = [pc EXCEPT ![c] = "lock"]
    /\ UNCHANGED <<ret, nTimeouts>>
    /\ UNCHANGED <<Connection, rx, tx, RequestId, reader, readErr, readerVars,
                   cli, reqID, elapsed, callNo, answered, nCalls, scenario,
                   minWeightMagnitude, responsesLock, serverVars>>

\* the head of a pass of the wait loop: past the read timeout the call
\* returns the timeout error, else it goes on to responsesLock.Lock
PollCheck(c) ==
    /\ pc[c] = "poll"
    /\ IF elapsed[c] > ReadTimeOutMs
       THEN /\ ret' = [ret EXCEPT ![c] =
                          [kind |-> "timeout", id |-> 0, data |-> <<>>]]
            /\ pc' = [pc EXCEPT ![c] = "done"]
            /\ nTimeouts' = nTimeouts + 1
       ELSE /\ pc' = [pc EXCEPT ![c] = "lock"]
            /\ UNCHANGED <<ret, nTimeouts>>
    /\ UNCHANGED <<Connection, rx, tx, RequestId, reader, readErr, readerVars,
                   cli, reqID, elapsed, callNo, answered, nCalls, scenario,
                   minWeightMagnitude, responsesLock, serverVars>>

\* Lock returns: the caller waiting in it has got responsesLock
PollAcquire(c) ==
    /\ pc[c] = "lock"
    /\ responsesLock = <<>>
    /\ responsesLock' = <<"caller", c>>
    /\ pc' = [pc EXCEPT ![c] = "locked"]
    /\ UNCHANGED <<Connection, rx, tx, RequestId, reader, readErr, readerVars,
                   cli, reqID, elapsed, ret, callNo, answered, nCalls,
                   nTimeouts, scenario, minWeightMagnitude, serverVars>>

\* the callers in the wait loop, wherever in a pass
InWaitLoop == {c \in Callers : pc[c] \in {"poll", "lock", "locked"}}

\* time.Since(ts) grows by one tick for every caller in the wait loop
TickWaiting ==
    /\ \E c \in InWaitLoop : elapsed[c] <= ReadTimeOutMs
    /\ elapsed' = [c \in Callers |->
                      IF c \in InWaitLoop
                      THEN Min(elapsed[c] + 1, ReadTimeOutMs + 1)
                      ELSE elapsed[c]]
    /\ UNCHANGED <<Connection, rx, tx, RequestId, reader, readErr, readerVars,
                   pc, cli, reqID, ret, callNo, answered, nCalls, nTimeouts,
                   scenario, minWeightMagnitude, responsesLock, serverVars>>

\* the length on the wire of the frame that starts the bytes buf
FirstFrame(buf) == 4 + (256 * buf[3] + buf[4]) + 1

\* Read has returned the next frame and receive has found it valid: it takes
\* responsesLock
ReadLock(p) ==
    /\ reader[p] = "running"
    /\ Connection[p] = "open"
    /\ rx[p] # <<>>
    /\ responsesLock = <<>>
    /\ responsesLock' = <<"receive", p>>
    /\ reader' = [reader EXCEPT ![p] = "storing"]
    /\ UNCHANGED <<Connection, rx, tx, RequestId, readErr, readerVars,
                   callerVars, scenario, minWeightMagnitude, serverVars>>

\* the frame is stored, then Unlock
ReadStore(p) ==
    /\ reader[p] = "storing"
    /\ LET n == FirstFrame(rx[p])
       IN  /\ receivePass(p, SubSeq(rx[p], 1, n), n < Len(rx[p]))
           /\ rx' = [rx EXCEPT ![p] = SubSeq(@, n + 1, Len(@))]
    /\ reader' = [reader EXCEPT ![p] = "running"]
    /\ responsesLock' = <<>>
    /\ UNCHANGED <<Connection, tx, RequestId, readErr, callerVars,
                   scenario, minWeightMagnitude, serverVars>>

\* one client, concurrent callers whose wait loops contend with each other
\* and with the reader for responsesLock, a peer that answers a request at
\* any time or never; caller 1 calls again and again, caller 2 once
LiveCalls == 2
NextLive ==
    \/ \E c \in Callers :
          (c = 1 \/ pc[c] = "idle") /\ AllocReqID(c, 1, LiveCalls)
    \/ \E c \in Callers : SendRequest(c)
    \/ \E c \in Callers : PollCheck(c)
    \/ \E c \in Callers : PollAcquire(c)
    \/ \E c \in Callers : PollLocked(c)
    \/ TickWaiting
    \/ ReadLock(1)
    \/ ReadStore(1)
    \/ ServerReply(1, IpcCmdResponse)

\* time advances; every goroutine that can run does run; who waits in Lock
\* gets the lock when it is free again and again (sync.Mutex hands the lock
\* to a waiter that has waited long); the reader does not stay between its
\* Lock and Unlock, which is weak fairness of ReadStore, enabled just there;
\* nothing is asked of the peer
LiveFairness ==
    /\ WF_vars(TickWaiting)
    /\ \A c \in Callers :
           /\ WF_vars(PollCheck(c))
           /\ SF_vars(PollAcquire(c))
           /\ WF_vars(PollLocked(c))
    /\ []<>(reader[1] # "storing")

SpecLive == Init /\ [][NextLive]_vars /\ LiveFairness

\* two clients in one process, caller c calling on client c
MultiCalls == 2
NextMulti ==
    \/ PowClientInit(2)
    \/ \E c \in Callers : Connection[c] # "nil" /\ AllocReqID(c, c, MultiCalls)
    \/ \E c \in Callers : SendRequest(c)
    \/ \E c \in Callers : Poll(c)
    \/ \E p \in Clients : Read(p)
    \/ \E p \in Clients : ServerReply(p, IpcCmdResponse)
    \/ Tick(MultiCalls)

SpecMulti == Init /\ [][NextMulti]_vars

\* two clients in one process, caller c calling on client c, the second
\* client initialised while the first is in use
NextLock ==
    \/ InitMake(2)
    \/ (Connection[2] = "make" /\ PowClientInit(2))
    \/ \E c \in Callers : Connection[c] = "open" /\ AllocReqID(c, c, MultiCalls)
    \/ \E c \in Callers : SendRequest(c)
    \/ \E c \in Callers : PollLock(c)
    \/ \E c \in Callers : PollLocked(c)
    \/ \E p \in Clients : ReadLock(p)
    \/ \E p \in Clients : ReadStore(p)
    \/ \E p \in Clients : ServerReply(p, IpcCmdResponse)

SpecLock == Init /\ [][NextLock]_vars

\* one client, concurrent callers, answers of every kind
ReplyCalls == 2
NextReply ==
    \/ \E c \in Callers : AllocReqID(c, 1, ReplyCalls)
    \/ \E c \in Callers : SendRequest(c)
    \/ \E c \in Callers : Poll(c)
    \/ Read(1)
    \/ \E cmd \in ReplyCmds, data \in ReplyTexts : ServerAnswer(1, cmd, data)

SpecReply == Init /\ [][NextReply]_vars

\* one client, concurrent callers of PowFunc, every request answered in time
PowCalls == 2
NextPow ==
    \/ \E c \in Callers, m \in MwmArgs : PowFunc(c, m)
    \/ \E c \in Callers : pc[c] = "call" /\ AllocReqID(c, 1, PowCalls)
    \/ \E c \in Callers : SendRequest(c)
    \/ \E c \in Callers : Poll(c)
    \/ Read(1)
    \/ ServerReply(1, IpcCmdResponse)

SpecPow == Init /\ [][NextPow]_vars

(***************************************************************************)
(* Properties of the decoder.                                              *)
(***************************************************************************)
\* the table that holds frame f and nothing else
OnlyFrame(f) == [k \in {f.ReqID} |-> f]

SmallScenario == scenario.kind \in {"plain", "resync", "badcrc", "multi"}
\* the whole long frame has been read
LongRead == scenario.kind = "long" /\ scenario.read = WireLen(scenario.len)
\* the bytes of the scenario's stream that client 1 has read
Consumed == Len(Stream(scenario)) - Len(rx[1])
BadLen == IF scenario.bad = <<>> THEN 0 ELSE 5 + Len(FrameBody(scenario.bad[1].f))

\* C3: however the bytes of a stream are split over successive reads, the
\* decoder and the response table are, after every read, what a single read
\* of the same bytes leaves: the same frames stored, the same state
C3_PartialReadSameAsWhole ==
    SmallScenario =>
        LET whole == receiveBuffer(FreshDecoder,
                                   SubSeq(Stream(scenario), 1, Consumed), 0)
        IN  /\ responses = whole.responses
            /\ storeCount[1] = whole.storeCount
            /\ frameState[1] = whole.frameState
            /\ frameState[1] \in {"SearchData", "SearchCRC"} =>
                   /\ frameData[1] = whole.frameData
                   /\ frameLength[1] = whole.frameLength

\* a valid frame has been stored after reads that ended between the two
\* length bytes, inside the payload and just before the checksum byte
C3_Witness ==
    /\ scenario.kind = "plain" /\ SmallScenario
    /\ rx[1] = <<>>
    /\ {"lengthLo", "data", "crc"} \subseteq cuts[1]
    /\ Len(scenario.frames[1].Data) = MaxPayload
    /\ responses = OnlyFrame(scenario.frames[1])

\* C4: noise without a sync byte, then a sync byte not followed by the
\* version byte, then a valid frame (the byte after the stray sync byte may
\* be the frame's own sync byte): once all is read exactly one frame has
\* been stored, the valid one
C4_ResyncFindsFrame ==
    (/\ scenario.kind = "resync"
     /\ \A i \in 1 .. Len(scenario.noise) : scenario.noise[i] # ENQ
     /\ rx[1] = <<>>)
        => /\ storeCount[1] = 1
           /\ responses = OnlyFrame(scenario.frames[1])

\* C5: the bytes of a frame (requestId, command, payload) with a payload of
\* up to 65535 bytes, read from SearchEnq, store exactly one frame, equal to
\* the triple, under its request id
C5_RoundTripTo65535 ==
    /\ (scenario.kind = "plain" /\ rx[1] = <<>>)
           => /\ storeCount[1] = 1
              /\ responses = OnlyFrame(scenario.frames[1])
    /\ (LongRead /\ scenario.len <= MaxFrameLength)
           => /\ storeCount[1] = 1
              /\ responses = OnlyFrame(LongFrame(scenario.len))

\* C5 amended: the same for every payload of up to 65533 bytes, the longest
\* whose length plus two fits the 16 bit length field
C5_RoundTrip ==
    /\ (scenario.kind = "plain" /\ rx[1] = <<>>)
           => /\ storeCount[1] = 1
              /\ responses = OnlyFrame(scenario.frames[1])
              /\ frameState[1] = "SearchEnq"
    /\ (LongRead /\ scenario.len <= MaxFrameLength - 2)
           => /\ storeCount[1] = 1
              /\ responses = OnlyFrame(LongFrame(scenario.len))
              /\ frameState[1] = "SearchEnq"

\* a frame whose length field uses both bytes has been read and stored
C5_Witness ==
    /\ LongRead /\ scenario.len = 256 - 2
    /\ storeCount[1] = 1
    /\ responses = OnlyFrame(LongFrame(scenario.len))

\* C6: a frame whose last byte is not the checksum of its content is never
\* stored, the decoder is in SearchEnq once that byte is read, and the valid
\* frame that follows is stored
C6_ChecksumEnforced ==
    scenario.kind = "badcrc" =>
        /\ Consumed <= BadLen => storeCount[1] = 0 /\ responses = <<>>
        /\ Consumed = BadLen => frameState[1] = "SearchEnq"
        /\ storeCount[1] <= 1
        /\ storeCount[1] = 1 => responses = OnlyFrame(scenario.frames[1])
        /\ rx[1] = <<>> => storeCount[1] = 1

\* a frame with a wrong checksum was read, in several reads, nothing was
\* stored for it, and the frame after it is in the table
C6_Witness ==
    /\ scenario.kind = "badcrc"
    /\ scenario.bad[1].f.ReqID # scenario.frames[1].ReqID
    /\ "crc" \in cuts[1]
    /\ rx[1] = <<>>
    /\ responses = OnlyFrame(scenario.frames[1])

\* the bounds the receive loop keeps on what it has gathered of a frame
DecoderOk(d) ==
    /\ d.frameState \in {"SearchData", "SearchCRC"} =>
           /\ 0 <= Len(d.frameData)
           /\ Len(d.frameData) <= d.frameLength
           /\ d.frameLength <= 65535
    /\ d.frameState = "SearchVersion" =>
           d.frameData = <<>> /\ d.frameLength = -1

\* the bounds hold before every pass of the inner loop over buf from
\* bufferIdx = idx on, and every slice taken of buf lies within it
RECURSIVE BufferOk(_, _, _)
BufferOk(d, buf, idx) ==
    /\ DecoderOk(d)
    /\ IF ~(Len(buf) > idx) THEN TRUE
       ELSE CASE d.frameState = "SearchEnq" ->
                   LET j == NextEnq(buf, idx)
                   IN  IF j >= Len(buf) THEN TRUE
                       ELSE BufferOk(SearchEnq(d, buf[j + 1]), buf, j + 1)
              [] d.frameState = "SearchVersion" ->
                   BufferOk(SearchVersion(d, buf[idx + 1]), buf, idx + 1)
              [] d.frameState = "SearchLength" ->
                   BufferOk(SearchLength(d, buf[idx + 1]), buf, idx + 1)
              [] d.frameState = "SearchData" ->
                   /\ LET slice == SearchDataSlice(d, buf, idx)
                      IN  /\ slice.missing >= 0
                          /\ 0 <= slice.lo
                          /\ slice.lo <= slice.hi
                          /\ slice.hi <= Len(buf)
                   /\ BufferOk(SearchData(d, buf, idx), buf,
                               SearchDataIdx(d, buf, idx) + 1)
              [] d.frameState = "SearchCRC" ->
                   BufferOk(SearchCRC(d, buf[idx + 1]), buf, idx + 1)

\* C22: for every stream and every way Read cuts it, the receive loop keeps
\* 0 <= len(frameData) <= frameLength <= 65535 in SearchData and SearchCRC,
\* the count of missing bytes is not negative, every slice of the read
\* buffer lies within the bytes read, and in SearchVersion frameData is
\* empty and frameLength is -1: between the reads, and within the pass over
\* whatever the next Read returns (of the long frames, a full buffer)
C22_BufferInvariant ==
    /\ DecoderOk(Decoder(1))
    /\ scenario.kind # "long" =>
           \A n \in 1 .. Len(rx[1]) :
               BufferOk(Decoder(1), SubSeq(rx[1], 1, n), 0)
    /\ (scenario.kind = "long" /\ ~LongRead) =>
           LET n == Min(WireLen(scenario.len) - scenario.read, BufSize)
           IN  BufferOk(Decoder(1),
                        SubSeq(LongStream[scenario.len],
                               scenario.read + 1, scenario.read + n), 0)

\* after a frame was stored the next one is partly gathered, the rest of
\* its data not yet read
C22_Witness ==
    /\ storeCount[1] >= 1
    /\ frameState[1] = "SearchData"
    /\ 0 < Len(frameData[1])
    /\ Len(frameData[1]) < frameLength[1]
    /\ rx[1] # <<>>

\* the table that holds the frames of sequence fs, each under its id
TableOf(fs) ==
    [k \in {fs[i].ReqID : i \in 1 .. Len(fs)} |->
        fs[CHOOSE i \in 1 .. Len(fs) : fs[i].ReqID = k]]

\* C16: of a buffer that is k valid frames with pairwise distinct ids, one
\* after the other, the inner loop stores all k, each under its id; after a
\* Read that returned the whole stream the table holds them all
C16_AllFramesOfOneRead ==
    scenario.kind = "multi" =>
        /\ LET d == receiveBuffer(FreshDecoder, Stream(scenario), 0)
           IN  /\ d.responses = TableOf(scenario.frames)
               /\ d.storeCount = Len(scenario.frames)
               /\ d.frameState = "SearchEnq"
        /\ (rx[1] = <<>> /\ "short" \notin cuts[1]) =>
               /\ responses = TableOf(scenario.frames)
               /\ storeCount[1] = Len(scenario.frames)

\* one Read has returned a stream of MaxFrames frames and all are stored
C16_Witness ==
    /\ scenario.kind = "multi"
    /\ Len(scenario.frames) = MaxFrames
    /\ rx[1] = <<>> /\ cuts[1] = {}
    /\ storeCount[1] = MaxFrames
    /\ DOMAIN responses = 1 .. MaxFrames
    /\ responses = TableOf(scenario.frames)

\* the stream starts with a sync byte whose next byte is not the version
VersionMismatch ==
    /\ scenario.kind = "resync"
    /\ Len(scenario.noise) >= 2
    /\ scenario.noise[1] = ENQ
    /\ scenario.noise[2] # FrameVersion

\* C17: after a sync byte and a byte that is not the version byte the decoder
\* is in SearchEnq with nothing stored, the reader keeps running, and once
\* the rest is read the valid frame that begins at a later sync byte has
\* been stored
C17_VersionMismatchIsNoise ==
    VersionMismatch =>
        /\ LET d == receiveBuffer(FreshDecoder, SubSeq(scenario.noise, 1, 2), 0)
           IN  /\ d.frameState = "SearchEnq"
               /\ d.storeCount = 0
               /\ d.responses = <<>>
        /\ reader[1] = "running"
        /\ rx[1] = <<>> =>
               /\ storeCount[1] = 1
               /\ responses = OnlyFrame(scenario.frames[1])

\* C18: the k-th call on a client uses the request id k mod 256, whatever
\* became of the calls before it: the first uses 1, the 256th uses 0
C18_WrappingCounter ==
    /\ RequestId[1] = nCalls[1] % 256
    /\ \A c \in Callers :
           pc[c] \in {"send", "poll", "done"} => reqID[c] = callNo[c] % 256

\* the 256th call has the id 0 and returned an error without a request
\* written: its data could not be encoded and the connection was closed
\* after the 255th call; an earlier call timed out
C18_Witness ==
    /\ callNo[1] = 256 /\ reqID[1] = 0
    /\ pc[1] = "done" /\ ret[1].kind = "write error"
    /\ minWeightMagnitude[1] = TooLong
    /\ nTimeouts = MaxTimeouts
    /\ Connection[1] = "closed"

\* the request of caller c cannot be encoded or cannot be written
WriteFails(c) ==
    \/ Connection[cli[c]] # "open"
    \/ ToBytes(reqID[c], IpcCmdPowFunc, SendData(c)) = <<>>

\* C19: the step of a call whose request cannot be encoded or written
\* returns the error at once: the table is left as it is, nothing is
\* written, no time has passed and no timeout is counted
C19_WriteFailureReturned ==
    [][\A c \in Callers :
          (pc[c] = "send" /\ pc'[c] # "send" /\ WriteFails(c)) =>
              /\ pc'[c] = "done"
              /\ ret'[c].kind = "write error"
              /\ responses' = responses
              /\ tx' = tx
              /\ elapsed'[c] = 0
              /\ nTimeouts' = nTimeouts]_vars

\* a call has failed to write while the table held a frame under its id
C19_Witness ==
    /\ pc[1] = "done"
    /\ ret[1].kind = "write error"
    /\ reqID[1] \in DOMAIN responses

\* the goroutines that are at an access to the table
Accessing ==
    {<<"caller", c>> : c \in {k \in Callers : pc[k] = "locked"}}
        \cup {<<"receive", p>> : p \in {q \in Clients : reader[q] = "storing"}}
        \cup {<<"Init", p>> : p \in {q \in Clients : Connection[q] = "make"}}

\* C20: whoever is at an access to the table, the reader, a caller or Init,
\* holds responsesLock, so that no two are at an access at the same time
C20_TableAccessExclusive ==
    \A h \in Accessing : responsesLock = h

(***************************************************************************)
(* Properties of the calls.                                                *)
(***************************************************************************)
Outstanding == {c \in Callers : pc[c] \in {"send", "poll"}}
FromFrame == {"payload", "error", "unknown command"}

\* C23: a call whose request was written returns in the end, with what the
\* frame it claimed says or with the timeout error
C23_EveryCallTerminates ==
    \A c \in Callers :
        (c \in InWaitLoop) ~>
            (pc[c] = "done" /\ ret[c].kind \in FromFrame \cup {"timeout"})

\* one call has returned its answer and the other the timeout error, having
\* waited in the same wait loop
C23_Witness ==
    /\ pc[1] = "done" /\ ret[1].kind = "timeout"
    /\ pc[2] = "done" /\ ret[2].kind = "payload"
    /\ nCalls[1] = LiveCalls

\* C21: a frame in the table goes to at most one call.  Every request has
\* its own payload and is answered once, so no two callers have returned
\* with the same frame; the step in which a caller obtains a frame is made
\* under the lock, gives the frame stored under the caller's id to this
\* caller alone and leaves no entry under that id; an id gets an entry only
\* by a store of the reader
C21_AtMostOnce ==
    /\ [](\A c \in Callers, d \in Callers :
             (/\ c # d
              /\ pc[c] = "done" /\ ret[c].kind \in FromFrame
              /\ pc[d] = "done" /\ ret[d].kind \in FromFrame)
                 => ret[c] # ret[d])
    /\ [][\A c \in Callers :
             (pc[c] # "done" /\ pc'[c] = "done" /\ ret'[c].kind \in FromFrame)
                 => /\ responsesLock = <<"caller", c>>
                    /\ reqID[c] \in DOMAIN responses
                    /\ ret'[c] = Reply(responses[reqID[c]])
                    /\ reqID[c] \notin DOMAIN responses'
                    /\ \A d \in Callers \ {c} :
                           pc'[d] = pc[d] /\ ret'[d] = ret[d]]_vars
    /\ [][\A k \in DOMAIN responses' \ DOMAIN responses :
             \E p \in Clients :
                 /\ reader[p] = "storing"
                 /\ storeCount'[p] = storeCount[p] + 1]_vars

\* one caller has claimed the frame stored under an id for which another
\* caller is polling under the lock, and the table has no entry for it
C21_Witness ==
    /\ pc[1] = "done" /\ ret[1].kind = "payload"
    /\ pc[2] = "locked" /\ reqID[2] = reqID[1]
    /\ reqID[1] \notin DOMAIN responses
    /\ storeCount[1] + storeCount[2] = 1

\* C1: with several calls outstanding on one client and a peer that echoes
\* the request id, a call that returns a frame returns the frame with the
\* id it allocated, and the payload is the answer to its own request
C1_OwnResponse ==
    \A c \in Callers :
        (pc[c] = "done" /\ ret[c].kind \in FromFrame) =>
            /\ ret[c].id = reqID[c]
            /\ answered[c]
            /\ ret[c].kind \in {"payload", "error"} => ret[c].data = CallData(c)

\* caller 1 has its own answer while caller 2, whose call is the earlier
\* one, is still waiting with its answer in the table
C1_Witness ==
    /\ pc[1] = "done" /\ ret[1].kind = "payload" /\ ret[1].data = CallData(1)
    /\ pc[2] = "poll" /\ callNo[2] < callNo[1]
    /\ reqID[2] \in DOMAIN responses

C7_Timeout ==
    \A c \in Callers :
        pc[c] = "done" =>
            /\ ret[c].kind = "timeout" => elapsed[c] > ReadTimeOutMs
            /\ (~answered[c] /\ ret[c].kind # "write error") =>
                   ret[c].kind = "timeout"
            /\ ret[c].kind = "payload" =>
                   answered[c] /\ ret[c].data = CallData(c)

\* the first call of caller 1 was never answered and timed out, its second
\* call has returned the answer to its request
C7_Witness ==
    /\ nTimeouts = 1 /\ pc[2] = "idle"
    /\ callNo[1] = 2 /\ pc[1] = "done"
    /\ ret[1].kind = "payload" /\ ret[1].data = CallData(1)
    /\ storeCount[1] = 1 /\ rx[1] = <<>> /\ tx[1] = <<>>
    /\ Connection[1] = "open"

\* C8: the response to a call that has timed out is never returned to a
\* later call, also not to the call that is given the same id after the
\* counter has wrapped around: a payload returned is the answer to the
\* request of the call that returns it
C8_LateResponseDropped ==
    (pc[1] = "done" /\ ret[1].kind = "payload" /\ nTimeouts > 0) =>
        /\ ret[1].data[2] = ToByte(callNo[1] \div 256)
        /\ ret[1].data[3] = ToByte(callNo[1])

\* C9: once Connection.Read has returned an error the read loop has ended
C9_ReadLoopEnds ==
    \A p \in Clients : readErr[p] => reader[p] = "exited"

\* C10: a response read on one client's connection is never returned to a
\* call made on another client
C10_NoCrossDelivery ==
    \A c \in Callers :
        (pc[c] = "done" /\ ret[c].kind = "payload") => ret[c].data[1] = cli[c]

\* C13: PowFunc called with a difficulty below 0 or above 243 returns an
\* error, and that step changes neither RequestId nor what is written on
\* the connection; called with a difficulty from 0 to 243 it writes the
\* request frame with the difficulty as the first byte of the payload
C13_DifficultyBound ==
    /\ [](\A c \in Callers :
            minWeightMagnitude[c] # NoArg =>
                IF minWeightMagnitude[c] < 0 \/ minWeightMagnitude[c] > 243
                THEN pc[c] = "done" /\ ret[c].kind = "range error"
                ELSE ret[c].kind # "range error")
    /\ [][\A c \in Callers :
            /\ (/\ pc[c] \in {"idle", "done"}
                /\ ret'[c].kind = "range error"
                /\ <<pc'[c], ret'[c], minWeightMagnitude'[c]>> #
                       <<pc[c], ret[c], minWeightMagnitude[c]>>) =>
                   /\ RequestId' = RequestId
                   /\ nCalls' = nCalls
                   /\ tx' = tx
            /\ (pc[c] = "send" /\ pc'[c] = "poll") =>
                   /\ minWeightMagnitude[c] \in 0 .. 243
                   /\ tx'[1] = Append(tx[1],
                          FrameBytes(reqID[c], IpcCmdPowFunc,
                              <<minWeightMagnitude[c]>> \o CallData(c)))]_vars

\* caller 1 was turned down with difficulty 244 and no id was used for it:
\* the request of caller 2, with difficulty 243, is the first on the wire
C13_Witness ==
    /\ pc[1] = "done" /\ ret[1].kind = "range error"
    /\ minWeightMagnitude[1] = 244
    /\ pc[2] = "poll" /\ minWeightMagnitude[2] = 243
    /\ RequestId[1] = 1 /\ reqID[2] = 1
    /\ tx[1] = <<FrameBytes(1, IpcCmdPowFunc, <<243>> \o CallData(2))>>

\* C14: a call that claims the frame stored for its id returns the payload
\* of the frame if the command is Response, an error with the payload's
\* bytes as message if it is Error, and for every other command an
\* unexpected-command error without payload
C14_ReplyInterpretation ==
    [][\A c \in Callers :
          (pc[c] = "poll" /\ pc'[c] = "done" /\ ret'[c].kind # "timeout") =>
              LET frame == responses[reqID[c]]
              IN  CASE frame.Command = IpcCmdResponse ->
                          /\ ret'[c].kind = "payload"
                          /\ ret'[c].data = frame.Data
                    [] frame.Command = IpcCmdError ->
                          /\ ret'[c].kind = "error"
                          /\ ret'[c].data = frame.Data
                    [] OTHER ->
                          /\ ret'[c].kind = "unknown command"
                          /\ ret'[c].data = <<>>]_vars

C11_SecondConnectionServed ==
    \A i \in 1 .. Len(backlog) :
        pending[backlog[i]] # 0 =>
            (handling = 0 \/ sconn[handling] # "open")

\* C12: at most one connection is inside the PowFunc of a device, and it
\* holds the mutex of the device
C12_DeviceSerialized ==
    \A d \in Devices :
        /\ Cardinality(inPow[d]) <= 1
        /\ \A c \in inPow[d] : PowMutex[d] = c

\* the handler of connection 1 is inside the PowFunc of a device while
\* connection 2 has written a request for the same device
C12_Witness ==
    \E d \in Devices :
        /\ inPow[d] = {1}
        /\ sconn[2] = "open" /\ pending[2] = d

====
